---- MODULE Spec2Model ----
(***************************************************************************)
(* Model of backend/life_saver/nlp/nlp.js: analyzeText, the adapter around *)
(* the remote language client, analyzeTextWrapper, its catch-all wrapper,  *)
(* and module.exports.  One step of the model is one run of JavaScript     *)
(* code between two awaits; the remote client settles requests in between. *)
(***************************************************************************)
EXTENDS Integers, Sequences, FiniteSets, TLC

\* longest list of sentences / entities / tokens / categories in a response
MaxItems == 2

\* the invocations that may be in flight together
Calls == {1, 2}

(***************************************************************************)
(* JavaScript values                                                       *)
(***************************************************************************)
Null == [tag |-> "null"]
Undefined == [tag |-> "undefined"]
Arr(s) == [tag |-> "array", items |-> s]
\* the exception value of a failed property access or iteration
TypeError == [tag |-> "throw"]

\* the entity block moved before the sentiment block
KindOrderSwapped == <<"entities", "sentiment", "syntax", "classification">>

\* the order of the four blocks of analyzeText
KindOrder == <<"sentiment", "entities", "syntax", "classification">>
Kinds == {KindOrder[i] : i \in 1..4}

\* the client method called by the block of a kind
ClientMethod(k) ==
    CASE k = "sentiment" -> "analyzeSentiment"
      [] k = "entities" -> "analyzeEntities"
      [] k = "syntax" -> "analyzeSyntax"
      [] k = "classification" -> "classifyText"

\* the local variable of analyzeText that holds the result of a kind
LocalName(k) ==
    CASE k = "sentiment" -> "sentiment_result"
      [] k = "entities" -> "entity_result"
      [] k = "syntax" -> "syntax_result"
      [] k = "classification" -> "classify_result"

\* the flag parameter that requests a kind
Flag(a, k) ==
    CASE k = "sentiment" -> a.analyze_sentiment
      [] k = "entities" -> a.analyze_entities
      [] k = "syntax" -> a.analyze_syntax
      [] k = "classification" -> a.classify_content

\* const document = { content: text, type: "PLAIN_TEXT" }
Document(text) == [content |-> text, type |-> "PLAIN_TEXT"]

\* the function a require() of the module hands out
module_exports == "analyzeText"

(***************************************************************************)
(* What the remote client may resolve a request with.  A response stands   *)
(* for the first element of the resolved array; Undefined is an array      *)
(* without one.                                                            *)
(***************************************************************************)
BSeq(S, n) == UNION {[1..m -> S] : m \in 0..n}

Texts == {"", "I love this."}

DocSentiments == {[magnitude |-> 9, score |-> 5]}

Sentences ==
    {[text |-> [content |-> "I love this."], sentiment |-> [magnitude |-> 9, score |-> 5]],
     [text |-> [content |-> "Bad."], sentiment |-> [magnitude |-> 4, score |-> -4]]}

\* the entity block never looks into an entity, so one stands for all
Entities == {[name |-> "Ann", type |-> "PERSON", salience |-> 7, mentions |-> 1]}

Tokens ==
    {[text |-> [content |-> "love"], partOfSpeech |-> [tag |-> "VERB"], lemma |-> "love"],
     [text |-> [content |-> "this"], partOfSpeech |-> [tag |-> "PRON"], lemma |-> "this"]}

Categories ==
    {[name |-> "/Arts", confidence |-> 8],
     [name |-> "/News", confidence |-> 2]}

Items(k) ==
    CASE k = "sentiment" -> Sentences
      [] k = "entities" -> Entities
      [] k = "syntax" -> Tokens
      [] k = "classification" -> Categories

\* the raw response object of a kind, from its list field and (sentiment) its aggregate
Raw(k, doc, list) ==
    CASE k = "sentiment" -> [tag |-> "object", documentSentiment |-> doc, sentences |-> list]
      [] k = "entities" -> [tag |-> "object", entities |-> list]
      [] k = "syntax" -> [tag |-> "object", tokens |-> list]
      [] k = "classification" -> [tag |-> "object", categories |-> list]

\* the list field of a raw response object
ListOf(k, raw) ==
    CASE k = "sentiment" -> raw.sentences
      [] k = "entities" -> raw.entities
      [] k = "syntax" -> raw.tokens
      [] k = "classification" -> raw.categories

\* a list field: missing, null (where the code tells it from missing), or a list
ListsUpTo(k, n) ==
    {Undefined} \cup (IF k = "entities" THEN {Null} ELSE {})
                \cup {Arr(q) : q \in BSeq(Items(k), n)}

ResponsesUpTo(k, n) ==
    {Undefined} \cup
    {Raw(k, d, l) : d \in (IF k = "sentiment" THEN {Undefined} \cup DocSentiments ELSE {Undefined}),
                    l \in ListsUpTo(k, n)}

Responses(k) == ResponsesUpTo(k, MaxItems)

(***************************************************************************)
(* The four blocks' reshaping of a response: the new value of the local,   *)
(* or TypeError where the JavaScript throws.                               *)
(***************************************************************************)
\* the sentences pushed in reverse order
NormalizeSentimentReversed(raw) ==
    IF raw = Undefined THEN TypeError
    ELSE IF raw.documentSentiment = Undefined THEN TypeError
    ELSE IF raw.sentences.tag # "array" THEN TypeError
    ELSE LET n == Len(raw.sentences.items)
         IN Arr(<<[magnitude |-> raw.documentSentiment.magnitude,
                   score |-> raw.documentSentiment.score]>>
                \o [i \in 1..n |->
                      [text |-> raw.sentences.items[n + 1 - i].text.content,
                       magnitude |-> raw.sentences.items[n + 1 - i].sentiment.magnitude,
                       score |-> raw.sentences.items[n + 1 - i].sentiment.score]])

\* lines 69-82
NormalizeSentiment(raw) ==
    IF raw = Undefined THEN TypeError
    ELSE IF raw.documentSentiment = Undefined THEN TypeError
    ELSE IF raw.sentences.tag # "array" THEN TypeError
    ELSE Arr(<<[magnitude |-> raw.documentSentiment.magnitude,
                score |-> raw.documentSentiment.score]>>
             \o [i \in 1..Len(raw.sentences.items) |->
                   [text |-> raw.sentences.items[i].text.content,
                    magnitude |-> raw.sentences.items[i].sentiment.magnitude,
                    score |-> raw.sentences.items[i].sentiment.score]])

\* lines 88-89
NormalizeEntities(raw) ==
    IF raw = Undefined THEN TypeError
    ELSE raw.entities

\* lines 95-102
NormalizeSyntax(raw) ==
    IF raw = Undefined THEN TypeError
    ELSE IF raw.tokens.tag # "array" THEN TypeError
    ELSE Arr([i \in 1..Len(raw.tokens.items) |->
                [partOfSpeech |-> raw.tokens.items[i].partOfSpeech.tag,
                 word |-> raw.tokens.items[i].text.content]])

\* lines 108-115
NormalizeClassification(raw) ==
    IF raw = Undefined THEN TypeError
    ELSE IF raw.categories.tag # "array" THEN TypeError
    ELSE Arr([i \in 1..Len(raw.categories.items) |->
                [name |-> raw.categories.items[i].name,
                 confidence |-> raw.categories.items[i].confidence]])

Normalize(k, raw) ==
    CASE k = "sentiment" -> NormalizeSentiment(raw)
      [] k = "entities" -> NormalizeEntities(raw)
      [] k = "syntax" -> NormalizeSyntax(raw)
      [] k = "classification" -> NormalizeClassification(raw)

(***************************************************************************)
(* The placeholders of the catch block of analyzeTextWrapper               *)
(***************************************************************************)
sentiment_result_dummy ==
    Arr(<<[magnitude |-> 0, score |-> 0],
          [text |-> "dummy_text", magnitude |-> 0, score |-> 0]>>)
entity_result_dummy == Arr(<<[name |-> "dummy_name", type |-> "OTHER", salience |-> 0]>>)
syntax_result_dummy == Arr(<<[word |-> "dummy_word", partOfSpeech |-> "NOUN"]>>)
classify_result_dummy == Arr(<<[name |-> "dummy_category", confidence |-> 0]>>)

Dummy(k) ==
    CASE k = "sentiment" -> sentiment_result_dummy
      [] k = "entities" -> entity_result_dummy
      [] k = "syntax" -> syntax_result_dummy
      [] k = "classification" -> classify_result_dummy

\* the entity slot of the catch block tested on the sentiment flag
FallbackWrongFlag(a) ==
    [i \in 1..4 |->
       IF Flag(a, IF i = 2 THEN "sentiment" ELSE KindOrder[i])
       THEN Dummy(KindOrder[i]) ELSE Null]

\* lines 146-151: the value the catch block returns
Fallback(a) == [i \in 1..4 |-> IF Flag(a, KindOrder[i]) THEN Dummy(KindOrder[i]) ELSE Null]

(***************************************************************************)
(* State                                                                   *)
(***************************************************************************)
VARIABLES
    args,       \* per call: the function called and its arguments
    pc,         \* per call: "idle", "awaitRequest", "awaitInner" or "done"
    local,      \* per call: the four result locals of analyzeText
    awaiting,   \* per call: the kind whose request analyzeText is suspended on
    reqState,   \* per call and kind: "none", "pending", "fulfilled", "rejected"
    reqValue,   \* per call and kind: the response the request was fulfilled with
    issued,     \* per call: the requests sent to the client, in order
    promise,    \* per call: the promise of analyzeText
    outcome     \* per call: the promise the caller holds

vars == <<args, pc, local, awaiting, reqState, reqValue, issued, promise, outcome>>

NoArgs == [fn |-> "none"]
NoPromise == [state |-> "none", value |-> <<>>]
Pending == [state |-> "pending", value |-> <<>>]
Fulfilled(v) == [state |-> "fulfilled", value |-> v]
Rejected == [state |-> "rejected", value |-> <<>>]

Undeclared ==
    [sentiment_result |-> Undefined, entity_result |-> Undefined,
     syntax_result |-> Undefined, classify_result |-> Undefined]

Init ==
    /\ args = [c \in Calls |-> NoArgs]
    /\ pc = [c \in Calls |-> "idle"]
    /\ local = [c \in Calls |-> Undeclared]
    /\ awaiting = [c \in Calls |-> "none"]
    /\ reqState = [c \in Calls |-> [k \in Kinds |-> "none"]]
    /\ reqValue = [c \in Calls |-> [k \in Kinds |-> Undefined]]
    /\ issued = [c \in Calls |-> <<>>]
    /\ promise = [c \in Calls |-> NoPromise]
    /\ outcome = [c \in Calls |-> NoPromise]

(***************************************************************************)
(* analyzeText, lines 54-119                                               *)
(***************************************************************************)
Index(k) == CHOOSE i \in 1..4 : KindOrder[i] = k

\* every block entered whatever its flag
NextBlock(a, i) == IF i < 4 THEN i + 1 ELSE 0

\* the next block after block i whose flag is set, or 0: the ifs of lines 68, 87, 94, 107
NextRequested(a, i) ==
    IF \E j \in (i + 1)..4 : Flag(a, KindOrder[j])
    THEN CHOOSE j \in (i + 1)..4 :
            /\ Flag(a, KindOrder[j])
            /\ \A m \in (i + 1)..(j - 1) : ~Flag(a, KindOrder[m])
    ELSE 0

\* the locals once block i has stored v and control has reached the await of
\* block j (the end of the function when j = 0): the blocks passed declare null
LocalsAfter(old, i, v, j) ==
    LET At(m) == IF m = i THEN v
                 ELSE IF m > i /\ (j = 0 \/ m <= j) THEN Null
                 ELSE old[LocalName(KindOrder[m])]
    IN [sentiment_result |-> At(1), entity_result |-> At(2),
        syntax_result |-> At(3), classify_result |-> At(4)]

\* line 118
ReturnValue(loc) ==
    <<loc.sentiment_result, loc.entity_result, loc.syntax_result, loc.classify_result>>

\* the locals declared at module level, one set for all invocations
StoreLocalsShared(c, loc) == local' = [d \in Calls |-> loc]

\* the locals belong to the invocation
StoreLocals(c, loc) == local' = [local EXCEPT ![c] = loc]

\* the request a block sends: client.<method>({ document })
Request(a, k) == [method |-> ClientMethod(k), kind |-> k, document |-> Document(a.text)]

\* the promise of analyzeText settles with p; the caller of the exported
\* function holds that promise, analyzeTextWrapper awaits it (line 133)
Finish(c, a, p) ==
    /\ promise' = [promise EXCEPT ![c] = p]
    /\ awaiting' = [awaiting EXCEPT ![c] = "none"]
    /\ IF a.fn = "analyzeText"
       THEN /\ outcome' = [outcome EXCEPT ![c] = p]
            /\ pc' = [pc EXCEPT ![c] = "done"]
       ELSE /\ outcome' = [outcome EXCEPT ![c] = Pending]
            /\ pc' = [pc EXCEPT ![c] = "awaitInner"]

\* analyzeText runs on from the end of block i, which stored v, to its next await
Run(c, a, i, v) ==
    LET j == NextRequested(a, i)
        loc == LocalsAfter(local[c], i, v, j)
    IN /\ StoreLocals(c, loc)
       /\ IF j # 0
          THEN /\ reqState' = [reqState EXCEPT ![c][KindOrder[j]] = "pending"]
               /\ issued' = [issued EXCEPT ![c] = Append(@, Request(a, KindOrder[j]))]
               /\ awaiting' = [awaiting EXCEPT ![c] = KindOrder[j]]
               /\ pc' = [pc EXCEPT ![c] = "awaitRequest"]
               /\ promise' = [promise EXCEPT ![c] = Pending]
               /\ outcome' = [outcome EXCEPT ![c] = Pending]
          ELSE /\ Finish(c, a, Fulfilled(ReturnValue(loc)))
               /\ UNCHANGED <<reqState, issued>>

\* a call of fn(text, ...): lines 61-64 create the client, which may throw,
\* then the function runs to its first await
Invoke(c, fn, text, fs, fe, fy, fc, clientOk) ==
    LET a == [fn |-> fn, text |-> text, analyze_sentiment |-> fs, analyze_entities |-> fe,
              analyze_syntax |-> fy, classify_content |-> fc, client |-> clientOk]
    IN /\ pc[c] = "idle"
       /\ args' = [args EXCEPT ![c] = a]
       /\ IF clientOk
          THEN Run(c, a, 0, Undefined)
          ELSE /\ Finish(c, a, Rejected)
               /\ UNCHANGED <<local, reqState, issued>>
       /\ UNCHANGED reqValue

\* the remote client fulfils the request of kind k with response r
Respond(c, k, r) ==
    /\ reqState[c][k] = "pending"
    /\ reqState' = [reqState EXCEPT ![c][k] = "fulfilled"]
    /\ reqValue' = [reqValue EXCEPT ![c][k] = r]
    /\ UNCHANGED <<args, pc, local, awaiting, issued, promise, outcome>>

\* the remote client rejects the request of kind k
Reject(c, k) ==
    /\ reqState[c][k] = "pending"
    /\ reqState' = [reqState EXCEPT ![c][k] = "rejected"]
    /\ UNCHANGED <<args, pc, local, awaiting, reqValue, issued, promise, outcome>>

\* analyzeText giving up on a request that has not settled
CanResumeEarly(c) == pc[c] = "awaitRequest"

\* the awaited request has settled
CanResume(c) ==
    /\ pc[c] = "awaitRequest"
    /\ reqState[c][awaiting[c]] \in {"fulfilled", "rejected"}

\* the failed request sent again
ThrowRetry(c) ==
    /\ reqState' = [reqState EXCEPT ![c][awaiting[c]] = "pending"]
    /\ issued' = [issued EXCEPT ![c] = Append(@, Request(args[c], awaiting[c]))]
    /\ UNCHANGED <<pc, local, awaiting, promise, outcome>>

\* an await that throws, or a TypeError of the reshaping, leaves analyzeText:
\* no block has a try, so the promise of analyzeText is rejected
Throw(c) ==
    /\ Finish(c, args[c], Rejected)
    /\ UNCHANGED <<local, reqState, issued>>

\* analyzeText continues after the await of lines 69, 88, 95, 108
Resume(c) ==
    LET k == awaiting[c]
        v == Normalize(k, reqValue[c][k])
    IN /\ CanResume(c)
       /\ IF reqState[c][k] = "rejected" \/ v = TypeError
          THEN Throw(c)
          ELSE Run(c, args[c], Index(k), v)
       /\ UNCHANGED <<args, reqValue>>

(***************************************************************************)
(* analyzeTextWrapper, lines 121-152                                       *)
(***************************************************************************)
\* lines 136-151: the result of analyzeText, or the placeholders of the catch
WrapperValue(a, p) == IF p.state = "fulfilled" THEN p.value ELSE Fallback(a)

\* analyzeTextWrapper continues after the await of line 133
WrapperResume(c) ==
    /\ pc[c] = "awaitInner"
    /\ outcome' = [outcome EXCEPT ![c] = Fulfilled(WrapperValue(args[c], promise[c]))]
    /\ pc' = [pc EXCEPT ![c] = "done"]
    /\ UNCHANGED <<args, local, awaiting, reqState, reqValue, issued, promise>>

(***************************************************************************)
(* Specifications                                                          *)
(***************************************************************************)
Functions == {"analyzeText", "analyzeTextWrapper"}

\* one invocation, every response
Next ==
    \/ \E fn \in Functions, text \in Texts, fs, fe, fy, fc, ok \in BOOLEAN :
          Invoke(1, fn, text, fs, fe, fy, fc, ok)
    \/ \E k \in Kinds : \E r \in Responses(k) : Respond(1, k, r)
    \/ \E k \in Kinds : Reject(1, k)
    \/ Resume(1)
    \/ WrapperResume(1)

Spec == Init /\ [][Next]_vars

\* the responses of the runs with two invocations and of the fair runs: a list
\* that is missing or of one item
SmallResponses(k) ==
    {Raw(k, d, l) :
        d \in (IF k = "sentiment" THEN DocSentiments ELSE {Undefined}),
        l \in {Undefined} \cup {Arr(<<x>>) : x \in {CHOOSE y \in Items(k) : TRUE}}}

\* two invocations, their steps interleaved in any order
NextPair ==
    \/ \E c \in Calls, fn \in Functions, fs, fe, fy, fc, ok \in BOOLEAN :
          Invoke(c, fn, "I love this.", fs, fe, fy, fc, ok)
    \/ \E c \in Calls, k \in Kinds : \E r \in SmallResponses(k) : Respond(c, k, r)
    \/ \E c \in Calls, k \in Kinds : Reject(c, k)
    \/ \E c \in Calls : Resume(c)
    \/ \E c \in Calls : WrapperResume(c)

SpecPair == Init /\ [][NextPair]_vars

\* one invocation, the small responses
NextLive ==
    \/ \E fn \in Functions, fs, fe, fy, fc, ok \in BOOLEAN :
          Invoke(1, fn, "I love this.", fs, fe, fy, fc, ok)
    \/ \E k \in Kinds : \E r \in SmallResponses(k) : Respond(1, k, r)
    \/ \E k \in Kinds : Reject(1, k)
    \/ Resume(1)
    \/ WrapperResume(1)

\* the remote client settles the awaited request of call c
Settle(c) ==
    \E k \in Kinds : Reject(c, k) \/ \E r \in SmallResponses(k) : Respond(c, k, r)

\* the event loop runs every continuation that is ready, and the remote client
\* settles every request
LiveSpec ==
    /\ Init /\ [][NextLive]_vars
    /\ WF_vars(Resume(1)) /\ WF_vars(WrapperResume(1)) /\ WF_vars(Settle(1))

(***************************************************************************)
(* Vocabulary of the properties                                            *)
(***************************************************************************)
Invoked(c) == pc[c] # "idle"
Done(c) == pc[c] = "done"
Returned(c) == outcome[c].state = "fulfilled"
Requested(c) == {k \in Kinds : Flag(args[c], k)}
SomeRejected(c) == \E k \in Kinds : reqState[c][k] = "rejected"
Count(c, k) == Cardinality({i \in 1..Len(issued[c]) : issued[c][i].kind = k})

Rank(k) ==
    CASE k = "sentiment" -> 1
      [] k = "entities" -> 2
      [] k = "syntax" -> 3
      [] k = "classification" -> 4

Slot(c, k) == outcome[c].value[Rank(k)]

Placeholder(k) ==
    CASE k = "sentiment" ->
            Arr(<<[magnitude |-> 0, score |-> 0],
                  [text |-> "dummy_text", magnitude |-> 0, score |-> 0]>>)
      [] k = "entities" -> Arr(<<[name |-> "dummy_name", type |-> "OTHER", salience |-> 0]>>)
      [] k = "syntax" -> Arr(<<[word |-> "dummy_word", partOfSpeech |-> "NOUN"]>>)
      [] k = "classification" -> Arr(<<[name |-> "dummy_category", confidence |-> 0]>>)

\* every requested slot holds its placeholder, every other slot null
IsPlaceholderOutcome(c) ==
    /\ Returned(c)
    /\ Len(outcome[c].value) = 4
    /\ \A k \in Kinds :
          Slot(c, k) = IF Flag(args[c], k) THEN Placeholder(k) ELSE Null

\* the response lacks what the reshaping of its kind needs
Lacking(k, raw) ==
    \/ raw = Undefined
    \/ ListOf(k, raw).tag # "array"
    \/ k = "sentiment" /\ raw.documentSentiment = Undefined

\* the request of kind k was fulfilled and reshaped without an exception
Completed(c, k) ==
    /\ reqState[c][k] = "fulfilled"
    /\ reqValue[c][k] # Undefined
    /\ k # "entities" => ~Lacking(k, reqValue[c][k])

(***************************************************************************)
(* C1  Total fallback: when a request of a call was rejected, the outcome  *)
(* the call returns holds the placeholder in every slot whose flag is true *)
(* and null in every other slot; no returned outcome holds a placeholder   *)
(* in one requested slot and something else in another requested slot.     *)
(***************************************************************************)
TotalFallback ==
    \A c \in Calls :
       Returned(c) =>
          /\ SomeRejected(c) => IsPlaceholderOutcome(c)
          /\ \A k1, k2 \in Requested(c) :
                Slot(c, k1) = Placeholder(k1) => Slot(c, k2) = Placeholder(k2)

\* a wrapper call fell back after its first request had delivered real data
TotalFallbackWitness ==
    \E c \in Calls :
       /\ Done(c) /\ args[c].fn = "analyzeTextWrapper"
       /\ reqState[c]["sentiment"] = "fulfilled"
       /\ reqState[c]["syntax"] = "rejected"
       /\ ~Flag(args[c], "entities") /\ Flag(args[c], "classification")
       /\ IsPlaceholderOutcome(c)

(***************************************************************************)
(* C2  The operation the module exposes never fails: every call of it      *)
(* completes with a 4-element outcome, never with a rejection.             *)
(***************************************************************************)
ExposedNeverFails ==
    \A c \in Calls :
       (Done(c) /\ args[c].fn = module_exports) =>
          /\ outcome[c].state = "fulfilled"
          /\ Len(outcome[c].value) = 4

(***************************************************************************)
(* C3  Flag gating: in every returned outcome a slot is null exactly when  *)
(* its flag is false, and a slot whose flag is true holds a sequence.      *)
(***************************************************************************)
FlagGating ==
    \A c \in Calls :
       Returned(c) =>
          \A k \in Kinds :
             /\ Slot(c, k) = Null <=> ~Flag(args[c], k)
             /\ Flag(args[c], k) => Slot(c, k).tag = "array"

(***************************************************************************)
(* C4  Independent issuance, as claimed: a finished call whose client was  *)
(* created has issued one request for every kind whose flag is true,       *)
(* whatever became of the requests of the other kinds.                     *)
(***************************************************************************)
IndependentIssuance ==
    \A c \in Calls :
       (Done(c) /\ args[c].client) => \A k \in Kinds : Count(c, k) = IF Flag(args[c], k) THEN 1 ELSE 0

(***************************************************************************)
(* C4 amended  A finished call has issued no request for a kind whose flag *)
(* is false, and exactly one for a kind whose flag is true if the client   *)
(* was created and every requested kind before it completed; otherwise     *)
(* none.                                                                   *)
(***************************************************************************)
GatedIssuance ==
    \A c \in Calls :
       Done(c) =>
          \A k \in Kinds :
             Count(c, k) =
                IF /\ Flag(args[c], k)
                   /\ args[c].client
                   /\ \A j \in Requested(c) : Rank(j) < Rank(k) => Completed(c, j)
                THEN 1 ELSE 0

\* a finished call whose first request was rejected never asked for a later requested kind
GatedIssuanceWitness ==
    \E c \in Calls :
       /\ Done(c)
       /\ reqState[c]["sentiment"] = "rejected"
       /\ Flag(args[c], "syntax") /\ Count(c, "syntax") = 0
       /\ Count(c, "sentiment") = 1

(***************************************************************************)
(* C5  Request bound and no retry: a call issues no request for a kind     *)
(* whose flag is false and at most one for a kind whose flag is true; once *)
(* a request of the call was rejected the call issues nothing more, and a  *)
(* finished wrapper call returns the placeholder outcome.                  *)
(***************************************************************************)
RequestBoundInv ==
    \A c \in Calls :
       Invoked(c) =>
          /\ \A k \in Kinds : Count(c, k) <= IF Flag(args[c], k) THEN 1 ELSE 0
          /\ (Done(c) /\ SomeRejected(c) /\ args[c].fn = "analyzeTextWrapper")
                => IsPlaceholderOutcome(c)

RequestBound ==
    /\ []RequestBoundInv
    /\ [][\A c \in Calls : SomeRejected(c) => issued'[c] = issued[c]]_vars

\* a wrapper call finished on the placeholders after the rejection of its second request
RequestBoundWitness ==
    \E c \in Calls :
       /\ Done(c) /\ args[c].fn = "analyzeTextWrapper"
       /\ reqState[c]["entities"] = "rejected"
       /\ Len(issued[c]) = 2
       /\ Flag(args[c], "classification")
       /\ IsPlaceholderOutcome(c)

(***************************************************************************)
(* C6  Malformed responses degrade uniformly: a finished wrapper call one  *)
(* of whose requests was fulfilled with a response lacking the data of its *)
(* kind returns the placeholder outcome.                                   *)
(***************************************************************************)
MalformedDegrades ==
    \A c \in Calls :
       (/\ Done(c) /\ args[c].fn = "analyzeTextWrapper"
        /\ \E k \in Kinds : reqState[c][k] = "fulfilled" /\ Lacking(k, reqValue[c][k]))
          => IsPlaceholderOutcome(c)

(***************************************************************************)
(* C7  Order-preserving normalization on success: when the client was      *)
(* created and every issued request was fulfilled with a response that     *)
(* carries its data, the outcome is returned, the sentiment slot is the    *)
(* aggregate followed by one record per sentence in order, the syntax and  *)
(* classification slots hold one record per token and category in order,   *)
(* and empty lists give empty sequences, not placeholders.                 *)
(***************************************************************************)
AllSucceeded(c) ==
    /\ Done(c) /\ args[c].client
    /\ \A k \in Requested(c) : reqState[c][k] = "fulfilled" /\ ~Lacking(k, reqValue[c][k])

SentimentShape(out, raw) ==
    /\ Len(out) = 1 + Len(raw.sentences.items)
    /\ out[1] = [magnitude |-> raw.documentSentiment.magnitude,
                 score |-> raw.documentSentiment.score]
    /\ DOMAIN out[1] = {"magnitude", "score"}
    /\ \A i \in 1..Len(raw.sentences.items) :
          /\ DOMAIN out[i + 1] = {"text", "magnitude", "score"}
          /\ out[i + 1].text = raw.sentences.items[i].text.content
          /\ out[i + 1].magnitude = raw.sentences.items[i].sentiment.magnitude
          /\ out[i + 1].score = raw.sentences.items[i].sentiment.score

SyntaxShape(out, raw) ==
    /\ Len(out) = Len(raw.tokens.items)
    /\ \A i \in 1..Len(out) :
          /\ DOMAIN out[i] = {"word", "partOfSpeech"}
          /\ out[i].word = raw.tokens.items[i].text.content
          /\ out[i].partOfSpeech = raw.tokens.items[i].partOfSpeech.tag

ClassificationShape(out, raw) ==
    /\ Len(out) = Len(raw.categories.items)
    /\ \A i \in 1..Len(out) :
          /\ DOMAIN out[i] = {"name", "confidence"}
          /\ out[i].name = raw.categories.items[i].name
          /\ out[i].confidence = raw.categories.items[i].confidence

EntitiesShape(out, raw) ==
    /\ Len(out) = Len(raw.entities.items)
    /\ \A i \in 1..Len(out) : out[i].name = raw.entities.items[i].name

\* every requested slot of the outcome of c is the reshaping of c's own response
OwnData(c) ==
    /\ Returned(c)
    /\ \A k \in Requested(c) :
          /\ Slot(c, k).tag = "array"
          /\ CASE k = "sentiment" -> SentimentShape(Slot(c, k).items, reqValue[c][k])
               [] k = "entities" -> EntitiesShape(Slot(c, k).items, reqValue[c][k])
               [] k = "syntax" -> SyntaxShape(Slot(c, k).items, reqValue[c][k])
               [] k = "classification" ->
                     ClassificationShape(Slot(c, k).items, reqValue[c][k])

OrderPreserving == \A c \in Calls : AllSucceeded(c) => OwnData(c)

\* a call returned two different sentences and two different tokens, with empty
\* entity and category lists
OrderPreservingWitness ==
    \E c \in Calls :
       /\ AllSucceeded(c) /\ Requested(c) = Kinds
       /\ Len(Slot(c, "sentiment").items) = 3
       /\ Slot(c, "sentiment").items[2] # Slot(c, "sentiment").items[3]
       /\ Len(Slot(c, "syntax").items) = 2
       /\ Slot(c, "syntax").items[1] # Slot(c, "syntax").items[2]
       /\ Slot(c, "entities") = Arr(<<>>)
       /\ Slot(c, "classification") = Arr(<<>>)

(***************************************************************************)
(* C10  Sequential short-circuit: a call issues its requests in the order  *)
(* sentiment, entities, syntax, classification, has at most one request    *)
(* outstanding, has issued a request only when every requested kind before *)
(* it completed, and issues nothing once a request was rejected.           *)
(***************************************************************************)
SequentialInv ==
    \A c \in Calls :
       Invoked(c) =>
          /\ \A i, j \in 1..Len(issued[c]) :
                i < j => Rank(issued[c][i].kind) < Rank(issued[c][j].kind)
          /\ Cardinality({k \in Kinds : reqState[c][k] = "pending"}) <= 1
          /\ \A k \in Kinds :
                Count(c, k) > 0 =>
                   \A j \in Requested(c) :
                      Rank(j) < Rank(k) => Count(c, j) = 1 /\ Completed(c, j)

Sequential ==
    /\ []SequentialInv
    /\ [][\A c \in Calls :
            (\E k \in Kinds : reqState[c][k] = "rejected" \/
                              (reqState[c][k] = "fulfilled" /\ ~Completed(c, k)))
               => issued'[c] = issued[c]]_vars

\* all four requests were issued in order, the last one is outstanding
SequentialWitness ==
    \E c \in Calls :
       /\ Len(issued[c]) = 4
       /\ reqState[c]["classification"] = "pending"
       /\ reqState[c]["syntax"] = "fulfilled"

(***************************************************************************)
(* C8  Statelessness under interleaving: two finished calls with the same  *)
(* arguments and the same responses have the same outcome; a call whose    *)
(* requests all succeeded returns the reshaping of its own responses       *)
(* whatever the other call did; and no step changes the state of two       *)
(* calls, so a failure of one call leaves the other call's locals and      *)
(* outcome alone.                                                          *)
(***************************************************************************)
CallState(c) == <<args[c], pc[c], local[c], awaiting[c], reqState[c], reqValue[c],
                  issued[c], promise[c], outcome[c]>>

StatelessInv ==
    \A c, d \in Calls :
       /\ (/\ Done(c) /\ Done(d) /\ args[c] = args[d]
           /\ reqState[c] = reqState[d] /\ reqValue[c] = reqValue[d])
             => outcome[c] = outcome[d]
       /\ AllSucceeded(c) => OwnData(c)

Stateless ==
    /\ []StatelessInv
    /\ [][\A c, d \in Calls :
            (c # d /\ CallState(d)' # CallState(d)) => CallState(c)' = CallState(c)]_vars

\* call 1 fell back after a rejection while call 2, invoked with the same
\* arguments, returned the data of its own two responses
StatelessWitness ==
    /\ Done(1) /\ Done(2) /\ args[1] = args[2]
    /\ args[1].fn = "analyzeTextWrapper"
    /\ reqState[1]["sentiment"] = "fulfilled" /\ reqState[1]["entities"] = "rejected"
    /\ IsPlaceholderOutcome(1)
    /\ reqState[2]["sentiment"] = "fulfilled" /\ reqState[2]["entities"] = "fulfilled"
    /\ AllSucceeded(2)
    /\ Len(Slot(2, "sentiment").items) = 2 /\ Len(Slot(2, "entities").items) = 1

(***************************************************************************)
(* C9  Completion: a finished call has no unresolved request; while the    *)
(* awaited request stays unresolved the call does not move (no timeout, no *)
(* cancellation); a settled outcome never changes; and when every request  *)
(* is eventually settled every invoked call finishes, a wrapper call with  *)
(* a returned outcome.                                                     *)
(***************************************************************************)
Unresolved(c) == pc[c] = "awaitRequest" /\ reqState[c][awaiting[c]] = "pending"

Completion ==
    /\ [](\A c \in Calls : Done(c) => \A k \in Kinds : reqState[c][k] # "pending")
    /\ [][\A c \in Calls :
            /\ (Unresolved(c) /\ Unresolved(c)') =>
                  <<pc[c], promise[c], outcome[c], local[c]>>' =
                  <<pc[c], promise[c], outcome[c], local[c]>>
            /\ outcome[c].state \in {"fulfilled", "rejected"} => outcome'[c] = outcome[c]]_vars
    /\ \A c \in Calls :
          Invoked(c) ~> (Done(c) /\ (args[c].fn = "analyzeTextWrapper" => Returned(c)))

\* a wrapper call finished with a returned outcome after three settled requests
CompletionWitness ==
    \E c \in Calls :
       /\ Done(c) /\ args[c].fn = "analyzeTextWrapper" /\ Returned(c)
       /\ Len(issued[c]) = 3
       /\ \A k \in Kinds : reqState[c][k] # "pending"

====
